---- MODULE Spec2Model ----
(***************************************************************************)
(* mongoose-lookuper: getNearestReferenceData and getPipeline of           *)
(* src/index.js, over a registry of Mongoose schemas.                      *)
(*                                                                         *)
(* A JavaScript string is a sequence of symbols: the field names, "." ,    *)
(* "tmp_", "$", "$$this." and "$$REMOVE" are the letters of the alphabet,  *)
(* so 'arr.ref' is <<"arr", ".", "ref">> and '' is <<>>.  split, join,    *)
(* replace and template concatenation work on these sequences as the       *)
(* JavaScript operations work on characters.                               *)
(***************************************************************************)
EXTENDS Integers, Sequences, FiniteSets, TLC

\* model, path and options are the arguments of the call as they were
\* passed; caller holds the caller's path and options objects and defaults
\* the module-level defaultOptions object, as they are now; calls counts
\* the calls of getPipeline made since the module was loaded
VARIABLES pc, model, path, options, nearest, result, collections, doc, out,
          defaults, caller, calls

vars ==
  <<pc, model, path, options, nearest, result, collections, doc, out,
    defaults, caller, calls>>

(***************************************************************************)
(* Bounds of the explored inputs.                                          *)
(***************************************************************************)
MaxSegments == 4

MaxListSegments == 2

MaxPaths == 2

MaxChainPaths == 4

MaxElems == 2

MaxIds == 2

MaxCalls == 2

(***************************************************************************)
(* Strings                                                                 *)
(***************************************************************************)
Dot == "."

\* the value JavaScript's undefined takes where a name is expected
Undefined == "undefined"

\* String.prototype.split('.'): ''.split('.') is [''], never []
RECURSIVE SplitFrom(_, _)
SplitFrom(s, cur) ==
  IF s = <<>> THEN <<cur>>
  ELSE IF Head(s) = Dot THEN <<cur>> \o SplitFrom(Tail(s), <<>>)
  ELSE SplitFrom(Tail(s), Append(cur, Head(s)))

Split(s) == SplitFrom(s, <<>>)

\* Array.prototype.join('.'): [].join('.') is ''
RECURSIVE Join(_)
Join(parts) ==
  IF parts = <<>> THEN <<>>
  ELSE IF Len(parts) = 1 THEN Head(parts)
  ELSE Head(parts) \o <<Dot>> \o Join(Tail(parts))

IsPrefixOf(p, s) == Len(p) <= Len(s) /\ SubSeq(s, 1, Len(p)) = p

\* String.prototype.replace(pattern, '') with a string pattern: the first
\* occurrence of the pattern, wherever it is, is removed; no occurrence
\* leaves the string as it is
RECURSIVE ReplaceFirst(_, _)
ReplaceFirst(s, pat) ==
  IF IsPrefixOf(pat, s) THEN SubSeq(s, Len(pat) + 1, Len(s))
  ELSE IF s = <<>> THEN <<>>
  ELSE <<Head(s)>> \o ReplaceFirst(Tail(s), pat)

Includes(arr, x) == \E i \in 1..Len(arr) : arr[i] = x

(***************************************************************************)
(* Mongoose schema types, as far as src/index.js probes them.              *)
(***************************************************************************)
UndefinedType ==
  [defined |-> FALSE, instance |-> Undefined, isMongooseArray |-> FALSE,
   isMongooseDocumentArray |-> FALSE, ref |-> Undefined,
   casterRef |-> Undefined, schema |-> Undefined]

StringType == [UndefinedType EXCEPT !.defined = TRUE, !.instance = "String"]

ObjectIdType(ref) ==
  [UndefinedType EXCEPT !.defined = TRUE, !.instance = "ObjectID", !.ref = ref]

ArrayType(casterRef) ==
  [UndefinedType EXCEPT !.defined = TRUE, !.instance = "Array",
                        !.isMongooseArray = TRUE, !.casterRef = casterRef]

DocumentArrayType(schema) ==
  [UndefinedType EXCEPT !.defined = TRUE, !.instance = "Array",
                        !.isMongooseArray = TRUE,
                        !.isMongooseDocumentArray = TRUE, !.schema = schema]

P1(a) == <<a>>
P2(a, b) == <<a, Dot, b>>
P3(a, b, c) == <<a, Dot, b, Dot, c>>

(***************************************************************************)
(* The schemas: each maps its declared leaf paths (nested objects are      *)
(* dotted, as Mongoose keeps them) to a schema type.  A document array's   *)
(* element schema is a schema of its own.                                  *)
(***************************************************************************)
LevelOneSchema ==
  (P1("_id") :> ObjectIdType(Undefined)) @@
  (P1("title") :> StringType) @@
  (P2("emb", "title") :> StringType) @@
  (P2("emb", "ref") :> ObjectIdType("LevelTwo")) @@
  (P1("ref") :> ObjectIdType("LevelTwo")) @@
  (P1("oid") :> ObjectIdType(Undefined)) @@
  (P1("refs") :> ArrayType("LevelTwo")) @@
  (P1("arr") :> DocumentArrayType("LevelOne.arr")) @@
  (P1("bad") :> ObjectIdType("Missing"))

LevelOneArrSchema ==
  (P1("_id") :> ObjectIdType(Undefined)) @@
  (P1("title") :> StringType) @@
  (P1("ref") :> ObjectIdType("LevelTwo")) @@
  (P2("emb", "ref") :> ObjectIdType("LevelTwo")) @@
  (P1("refs") :> ArrayType("LevelTwo"))

\* emb.title is a plain field and its rotation title.emb a reference; bad is
\* an array of references to a model nobody registered
LevelTwoSchema ==
  (P1("_id") :> ObjectIdType(Undefined)) @@
  (P2("emb", "title") :> StringType) @@
  (P2("title", "emb") :> ObjectIdType("LevelThree")) @@
  (P1("ref") :> ObjectIdType("LevelThree")) @@
  (P1("refs") :> ArrayType("LevelThree")) @@
  (P1("arr") :> DocumentArrayType("LevelTwo.arr")) @@
  (P1("bad") :> ArrayType("Missing"))

LevelTwoArrSchema ==
  (P1("_id") :> ObjectIdType(Undefined)) @@
  (P1("title") :> StringType) @@
  (P1("ref") :> ObjectIdType("LevelThree"))

\* refs is an array of plain strings here: its caster declares no ref
LevelThreeSchema ==
  (P1("_id") :> ObjectIdType(Undefined)) @@
  (P1("title") :> StringType) @@
  (P1("ref") :> ObjectIdType("LevelFour")) @@
  (P1("refs") :> ArrayType(Undefined)) @@
  (P1("arr") :> DocumentArrayType("LevelTwo.arr"))

\* LevelFour refers back to LevelOne: the reference graph has a cycle
LevelFourSchema ==
  (P1("_id") :> ObjectIdType(Undefined)) @@
  (P1("title") :> StringType) @@
  (P1("ref") :> ObjectIdType("LevelOne"))

\* the LevelOne schema in a Mongoose whose schema.path also resolves the
\* paths of a document array's element schema under the array's own path
LevelOneSubpathsSchema ==
  LevelOneSchema @@
  [q \in {P1("arr") \o <<Dot>> \o e : e \in DOMAIN LevelOneArrSchema} |->
     LevelOneArrSchema[SubSeq(q, 3, Len(q))]]

Schemas ==
  ("LevelOne.schema" :> LevelOneSchema) @@
  ("LevelOne.subpaths" :> LevelOneSubpathsSchema) @@
  ("LevelTwo.schema" :> LevelTwoSchema) @@
  ("LevelThree.schema" :> LevelThreeSchema) @@
  ("LevelFour.schema" :> LevelFourSchema) @@
  ("LevelOne.arr" :> LevelOneArrSchema) @@
  ("LevelTwo.arr" :> LevelTwoArrSchema)

\* mongoose.model(name): the registered models, their schemas and collections
Models ==
  [LevelOne |-> [schema |-> "LevelOne.schema", collectionName |-> "levelones"],
   LevelTwo |-> [schema |-> "LevelTwo.schema", collectionName |-> "leveltwos"],
   LevelThree |-> [schema |-> "LevelThree.schema",
                   collectionName |-> "levelthrees"],
   LevelFour |-> [schema |-> "LevelFour.schema",
                  collectionName |-> "levelfours"]]

\* schema.path(path)
SchemaPath(schema, p) ==
  IF p \in DOMAIN Schemas[schema] THEN Schemas[schema][p] ELSE UndefinedType

isArrayOfDocumentsPath(schemaType) ==
  schemaType.defined /\ schemaType.isMongooseDocumentArray

isArrayPath(schemaType) ==
  schemaType.defined
    /\ (schemaType.isMongooseArray \/ isArrayOfDocumentsPath(schemaType))

isObjectIdPath(schemaType) ==
  schemaType.defined /\ schemaType.instance = "ObjectID"

isUnnecessaryPath(schemaType) ==
  ~isObjectIdPath(schemaType) /\ ~isArrayPath(schemaType)

\* a variant that forgets to ask for options.ref
isReferencePathOfAnyType(schemaType) == schemaType.defined

isReferencePath(schemaType) ==
  schemaType.defined /\ schemaType.ref # Undefined

(***************************************************************************)
(* Outcomes of a call: a value, a thrown error, or no return at all.       *)
(***************************************************************************)
Absent == [kind |-> "absent"]

Throws(error) == [kind |-> "throw", error |-> error]

Hangs == [kind |-> "hang"]

\* how Array.prototype.join and a template render a missing string
UndefinedString == <<Undefined>>

JoinItem(x) == IF x = UndefinedString THEN <<>> ELSE x

\* let data = {}
EmptyData ==
  [kind |-> "desc", referencePath |-> UndefinedString,
   referenceCollectionName |-> Undefined, referenceModel |-> Undefined,
   isArray |-> FALSE, isArrayOfDocuments |-> FALSE,
   arrayField |-> UndefinedString, referenceField |-> UndefinedString]

\* getSchema(modelOrSchema): a model's schema, a schema itself
getSchema(modelOrSchema) ==
  IF modelOrSchema \in DOMAIN Models THEN Models[modelOrSchema].schema
  ELSE modelOrSchema

\* the while loop of getNearestReferenceData.  When the full path resolved,
\* referencePath and parts are one array (aliased): push(parts.shift())
\* then rotates it and its length never falls; seen holds the arrays the
\* loop has been entered with, and meeting one again is a loop without end.
RECURSIVE Walk(_, _, _, _, _, _)

\* after push(parts.shift()) and schema.path(referencePath.join('.'))
walkStep(schema, referencePath, parts, aliased, schemaType, seen) ==
  IF isArrayPath(schemaType)
  THEN [kind |-> "exit", referencePath |-> referencePath, parts |-> parts,
        schemaType |-> schemaType]
  ELSE IF aliased /\ parts \in seen /\ isUnnecessaryPath(schemaType)
  THEN Hangs
  ELSE Walk(schema, referencePath, parts, aliased, schemaType,
            seen \cup {parts})

shifted(referencePath, parts, aliased) ==
  IF aliased THEN Append(Tail(parts), Head(parts))
  ELSE Append(referencePath, Head(parts))

Walk(schema, referencePath, parts, aliased, schemaType, seen) ==
  IF isUnnecessaryPath(schemaType) /\ Len(parts) > 0
  THEN walkStep(schema,
                shifted(referencePath, parts, aliased),
                IF aliased THEN shifted(referencePath, parts, aliased)
                ELSE Tail(parts),
                aliased,
                SchemaPath(schema,
                           Join(shifted(referencePath, parts, aliased))),
                seen)
  ELSE [kind |-> "exit", referencePath |-> referencePath, parts |-> parts,
        schemaType |-> schemaType]

RECURSIVE getNearestReferenceData(_, _)

\* lines 92-99: the descriptor of an array of documents, composed from what
\* the search of its element schema returned; Object.assign(data, null)
\* leaves data empty
arrayOfDocumentsData(inner, referencePath) ==
  IF inner.kind \in {"throw", "hang"} THEN inner
  ELSE IF inner.kind = "absent"
  THEN [EmptyData EXCEPT
          !.isArray = TRUE,
          !.isArrayOfDocuments = TRUE,
          !.arrayField = Join(referencePath),
          !.referenceField = UndefinedString,
          !.referencePath =
              Join(Append(referencePath, JoinItem(UndefinedString)))]
  ELSE [inner EXCEPT
          !.isArray = TRUE,
          !.isArrayOfDocuments = TRUE,
          !.arrayField = Join(referencePath),
          !.referenceField = inner.referencePath,
          !.referencePath =
              Join(Append(referencePath, JoinItem(inner.referencePath)))]

\* a variant that takes a target nobody registered for no reference at all
referenceDataOfRegistered(schemaType, referencePath, parts) ==
  IF ~schemaType.defined THEN Absent
  ELSE IF isReferencePath(schemaType)
  THEN IF schemaType.ref \notin DOMAIN Models
       THEN Absent
       ELSE [EmptyData EXCEPT
               !.referencePath = Join(referencePath),
               !.referenceCollectionName =
                   Models[schemaType.ref].collectionName,
               !.referenceModel = schemaType.ref]
  ELSE IF isArrayPath(schemaType)
  THEN IF isArrayOfDocumentsPath(schemaType)
       THEN arrayOfDocumentsData(
              getNearestReferenceData(schemaType.schema, Join(parts)),
              referencePath)
       ELSE IF schemaType.casterRef \notin DOMAIN Models
            THEN Absent
            ELSE [EmptyData EXCEPT
                    !.isArray = TRUE,
                    !.referencePath = Join(referencePath),
                    !.referenceCollectionName =
                        Models[schemaType.casterRef].collectionName,
                    !.referenceModel = schemaType.casterRef]
  ELSE Absent

\* lines 74-111: what is returned for the schema type the loop stopped at
referenceDataOf(schemaType, referencePath, parts) ==
  IF ~schemaType.defined THEN Absent
  ELSE IF isReferencePath(schemaType)
  THEN IF schemaType.ref \notin DOMAIN Models
       THEN Throws("MissingSchemaError")
       ELSE [EmptyData EXCEPT
               !.referencePath = Join(referencePath),
               !.referenceCollectionName =
                   Models[schemaType.ref].collectionName,
               !.referenceModel = schemaType.ref]
  ELSE IF isArrayPath(schemaType)
  THEN IF isArrayOfDocumentsPath(schemaType)
       THEN arrayOfDocumentsData(
              getNearestReferenceData(schemaType.schema, Join(parts)),
              referencePath)
       ELSE IF schemaType.casterRef \notin DOMAIN Models
            THEN Throws("MissingSchemaError")
            ELSE [EmptyData EXCEPT
                    !.isArray = TRUE,
                    !.referencePath = Join(referencePath),
                    !.referenceCollectionName =
                        Models[schemaType.casterRef].collectionName,
                    !.referenceModel = schemaType.casterRef]
  ELSE Absent

\* the loop has ended, or never ends
referenceDataAfterWalk(w) ==
  IF w.kind = "hang" THEN Hangs
  ELSE referenceDataOf(w.schemaType, w.referencePath, w.parts)

\* lines 54-72: the early return, referencePath = parts, and the loop
referenceDataFrom(schema, parts, schemaType) ==
  IF Len(parts) = 0 \/ (Len(parts) = 1 /\ isUnnecessaryPath(schemaType))
  THEN Absent
  ELSE referenceDataAfterWalk(
         Walk(schema, IF schemaType.defined THEN parts ELSE <<>>, parts,
              schemaType.defined, schemaType, {parts}))

\* getNearestReferenceData(model, path)
getNearestReferenceData(modelOrSchema, p) ==
  referenceDataFrom(getSchema(modelOrSchema), Split(p),
                    SchemaPath(getSchema(modelOrSchema), p))

(***************************************************************************)
(* Pipeline stages                                                         *)
(***************************************************************************)
Dollar == "$"

Tmp == "tmp_"

lookupStage(from, localField, foreignField, as) ==
  [stage |-> "$lookup", from |-> from, localField |-> localField,
   foreignField |-> foreignField, as |-> as]

\* getUnwindStage(path, preserveNullAndEmptyArrays)
getUnwindStage(p, preserveNullAndEmptyArrays) ==
  [stage |-> "$unwind", path |-> <<Dollar>> \o p,
   preserveNullAndEmptyArrays |-> preserveNullAndEmptyArrays]

\* a variant that maps over the found documents instead of the base field
getAddFieldsStageOverFound(baseField, referenceField, fieldFoundDocs) ==
  [stage |-> "$addFields", shape |-> "remerge",
   field |-> baseField,
   input |-> <<Dollar>> \o fieldFoundDocs,
   mergeKeys |-> IF Includes(referenceField, Dot) THEN Split(referenceField)
                 ELSE <<referenceField>>,
   arrayElemAt |-> <<Dollar>> \o fieldFoundDocs,
   indexOfArrayIn |-> <<Dollar>> \o fieldFoundDocs \o <<Dot, "_id">>,
   indexOfArrayOf |-> <<"$$this.">> \o referenceField]

\* getAddFieldsStage(baseField, referenceField, fieldFoundDocs): mergeObject
\* is given by the chain of keys that leads to the $arrayElemAt expression
getAddFieldsStage(baseField, referenceField, fieldFoundDocs) ==
  [stage |-> "$addFields", shape |-> "remerge",
   field |-> baseField,
   input |-> <<Dollar>> \o baseField,
   mergeKeys |-> IF Includes(referenceField, Dot) THEN Split(referenceField)
                 ELSE <<referenceField>>,
   arrayElemAt |-> <<Dollar>> \o fieldFoundDocs,
   indexOfArrayIn |-> <<Dollar>> \o fieldFoundDocs \o <<Dot, "_id">>,
   indexOfArrayOf |-> <<"$$this.">> \o referenceField]

\* {$addFields: {[`tmp_${arrayField}`]: '$$REMOVE'}}
removeStage(arrayField) ==
  [stage |-> "$addFields", shape |-> "remove",
   field |-> <<Tmp>> \o arrayField, value |-> <<"$$REMOVE">>]

\* a variant that collects nothing
getExcludePathsFromPipelineNone(pipeline) == <<>>

\* getExcludePathsFromPipeline(pipeline)
RECURSIVE getExcludePathsFromPipeline(_)
getExcludePathsFromPipeline(pipeline) ==
  IF pipeline = <<>> THEN <<>>
  ELSE (IF Head(pipeline).stage = "$lookup"
        THEN <<Head(pipeline).localField>> ELSE <<>>)
       \o getExcludePathsFromPipeline(Tail(pipeline))

(***************************************************************************)
(* Options                                                                 *)
(***************************************************************************)
defaultOptions ==
  [foreignField |-> <<"_id">>,
   preserveNullAndEmptyArrays |-> TRUE,
   referencePathPrefix |-> <<>>,
   parentArrayReference |-> <<>>,
   excludePaths |-> <<>>]

\* {...defaultOptions, ...options}, read from the module-level object as it
\* is when the call is made
mergeOptions(given) ==
  [k \in DOMAIN defaultOptions |->
     IF k \in DOMAIN given THEN given[k] ELSE defaults[k]]

Ok(pipeline) == [kind |-> "ok", pipeline |-> pipeline]

\* a variant that starts the prefix anew at every level
deepOptionsWithoutOuterPrefix(opts, referencePath, excludePaths, pipelinePath, parentArrayReference) ==
  [referencePathPrefix |-> referencePath \o <<Dot>>,
   excludePaths |-> Append(excludePaths, pipelinePath),
   parentArrayReference |-> parentArrayReference]

\* the options getPipeline hands to its recursive call on the deeper path
deepOptions(opts, referencePath, excludePaths, pipelinePath, parentArrayReference) ==
  [referencePathPrefix |->
       opts.referencePathPrefix \o referencePath \o <<Dot>>,
   excludePaths |-> Append(excludePaths, pipelinePath),
   parentArrayReference |-> parentArrayReference]

\* a variant that flattens whatever was joined
stepStagesAlwaysFlatten(nearestReference, pipelinePath, opts) ==
  <<lookupStage(nearestReference.referenceCollectionName, pipelinePath,
                opts.foreignField, pipelinePath),
    getUnwindStage(pipelinePath, opts.preserveNullAndEmptyArrays)>>

\* line 169
fieldFoundDocsOf(nearestReference, pipelinePath) ==
  IF nearestReference.isArrayOfDocuments THEN <<Tmp>> \o pipelinePath
  ELSE pipelinePath

\* lines 169-194: the stages getPipeline emits for one reference that is
\* not excluded
stepStages(nearestReference, pipelinePath, opts) ==
  <<lookupStage(nearestReference.referenceCollectionName, pipelinePath,
                opts.foreignField,
                fieldFoundDocsOf(nearestReference, pipelinePath))>>
  \o
  (IF ~nearestReference.isArray
   THEN <<getUnwindStage(pipelinePath, opts.preserveNullAndEmptyArrays)>>
   ELSE IF nearestReference.isArrayOfDocuments
   THEN <<getAddFieldsStage(
            nearestReference.arrayField,
            ReplaceFirst(pipelinePath,
                         nearestReference.arrayField \o <<Dot>>),
            fieldFoundDocsOf(nearestReference, pipelinePath)),
          removeStage(nearestReference.arrayField)>>
   ELSE <<>>)

RECURSIVE getPipelineOfPath(_, _, _, _)

\* a variant in which the stages of the rest of the path come first
withDeeperFirst(pipelines, deep) ==
  IF deep.kind = "ok" THEN Ok(deep.pipeline \o pipelines) ELSE deep

\* lines 209-212
withDeeper(pipelines, deep) ==
  IF deep.kind = "ok" THEN Ok(pipelines \o deep.pipeline) ELSE deep

\* a variant in which every array step names itself the parent array
parentArrayReferenceOfNearest(nearestReference, opts) ==
  IF nearestReference.isArray
  THEN nearestReference.referencePath
  ELSE opts.parentArrayReference

\* lines 198-201
parentArrayReferenceOf(nearestReference, opts) ==
  IF nearestReference.isArray /\ opts.parentArrayReference = <<>>
  THEN nearestReference.referencePath
  ELSE opts.parentArrayReference

\* lines 202-207: the recursive call on the rest of the path.  called holds
\* the (model, path) pairs of the calls this one is nested in: a pair met
\* again is a recursion without end, which the engine ends with a RangeError
deeper(nearestReference, deepPath, given, pipelines, called) ==
  IF <<nearestReference.referenceModel, deepPath>> \in called
  THEN Throws("RangeError")
  ELSE withDeeper(pipelines,
                  getPipelineOfPath(
                    nearestReference.referenceModel, deepPath, given,
                    called \cup {<<nearestReference.referenceModel,
                                   deepPath>>}))

\* a variant that gives up the rest of the path at an excluded step
pipelineOfStepEndingAtExcluded(nearestReference, pipelinePath, p, opts, excluded, called) ==
  IF excluded THEN Ok(<<>>)
  ELSE IF p = nearestReference.referencePath
  THEN Ok(stepStages(nearestReference, pipelinePath, opts))
  ELSE deeper(nearestReference,
              ReplaceFirst(p, nearestReference.referencePath \o <<Dot>>),
              deepOptions(opts, nearestReference.referencePath,
                          Append(opts.excludePaths, pipelinePath),
                          pipelinePath,
                          parentArrayReferenceOf(nearestReference, opts)),
              stepStages(nearestReference, pipelinePath, opts),
              called)

\* lines 168-212, excluded telling whether pipelinePath is in excludePaths
pipelineOfStep(nearestReference, pipelinePath, p, opts, excluded, called) ==
  IF p = nearestReference.referencePath
  THEN Ok(IF excluded THEN <<>>
          ELSE stepStages(nearestReference, pipelinePath, opts))
  ELSE deeper(nearestReference,
              ReplaceFirst(p, nearestReference.referencePath \o <<Dot>>),
              deepOptions(opts, nearestReference.referencePath,
                          IF excluded THEN opts.excludePaths
                          ELSE Append(opts.excludePaths, pipelinePath),
                          pipelinePath,
                          parentArrayReferenceOf(nearestReference, opts)),
              IF excluded THEN <<>>
              ELSE stepStages(nearestReference, pipelinePath, opts),
              called)

\* lines 161-166
underParentArray(found, opts) ==
  IF opts.parentArrayReference # <<>>
  THEN [found EXCEPT !.isArray = TRUE,
                     !.isArrayOfDocuments = TRUE,
                     !.arrayField = opts.parentArrayReference,
                     !.referenceField = found.referencePath]
  ELSE found

\* lines 155-168
pipelineOfFound(found, p, opts, called) ==
  IF found.kind \in {"throw", "hang"} THEN found
  ELSE IF found.kind = "absent" THEN Ok(<<>>)
  ELSE pipelineOfStep(
         underParentArray(found, opts),
         opts.referencePathPrefix \o found.referencePath, p, opts,
         Includes(opts.excludePaths,
                  opts.referencePathPrefix \o found.referencePath),
         called)

\* getPipeline(model, path, options) for a single path
getPipelineOfPath(modelOrSchema, p, given, called) ==
  IF modelOrSchema = Undefined THEN Throws("TypeError")
  ELSE pipelineOfFound(
         getNearestReferenceData(getSchema(modelOrSchema), p), p,
         mergeOptions(given), called)

\* a variant of the loop that hands every path the caller's excludePaths
RECURSIVE getPipelineOfPathsApart(_, _, _, _, _)

afterPathApart(modelOrSchema, rest, opts, excludePaths, pipeline, res) ==
  IF res.kind # "ok" THEN res
  ELSE getPipelineOfPathsApart(modelOrSchema, rest, opts, excludePaths,
                               pipeline \o res.pipeline)

getPipelineOfPathsApart(modelOrSchema, paths, opts, excludePaths, pipeline) ==
  IF paths = <<>> THEN Ok(pipeline)
  ELSE afterPathApart(modelOrSchema, Tail(paths), opts, excludePaths,
                      pipeline,
                      getPipelineOfPath(modelOrSchema, Head(paths), opts,
                                        {<<modelOrSchema, Head(paths)>>}))

\* the loop of getPipeline over an array of paths
RECURSIVE getPipelineOfPaths(_, _, _, _, _)

\* a variant that puts the stages of a later path first
afterPathPrepending(modelOrSchema, rest, opts, excludePaths, pipeline, res) ==
  IF res.kind # "ok" THEN res
  ELSE getPipelineOfPaths(
         modelOrSchema, rest, opts,
         excludePaths \o getExcludePathsFromPipeline(res.pipeline),
         res.pipeline \o pipeline)

\* lines 143-144: result is what the call for one path returned
afterPath(modelOrSchema, rest, opts, excludePaths, pipeline, res) ==
  IF res.kind # "ok" THEN res
  ELSE getPipelineOfPaths(
         modelOrSchema, rest, opts,
         excludePaths \o getExcludePathsFromPipeline(res.pipeline),
         pipeline \o res.pipeline)

getPipelineOfPaths(modelOrSchema, paths, opts, excludePaths, pipeline) ==
  IF paths = <<>> THEN Ok(pipeline)
  ELSE afterPath(modelOrSchema, Tail(paths), opts, excludePaths, pipeline,
                 getPipelineOfPath(
                   modelOrSchema, Head(paths),
                   [opts EXCEPT !.excludePaths = excludePaths],
                   {<<modelOrSchema, Head(paths)>>}))

\* getPipeline(model, path, options = {})
getPipeline(modelOrSchema, p, given) ==
  IF p.isArray
  THEN getPipelineOfPaths(modelOrSchema, p.paths, mergeOptions(given),
                          mergeOptions(given).excludePaths, <<>>)
  ELSE getPipelineOfPath(modelOrSchema, p.path, mergeOptions(given),
                         {<<modelOrSchema, p.path>>})

(***************************************************************************)
(* What a call writes.  The only writes of getPipeline to an array that    *)
(* may be reachable from outside are the pushes onto excludePaths; the     *)
(* arrays are told apart by the object they are: the caller's, the one     *)
(* of defaultOptions, or one local to the call.                            *)
(***************************************************************************)
\* line 131: the spread is shallow, options.excludePaths is the caller's
\* array when one was given and the array of defaultOptions otherwise
optionsExcludePaths(given) ==
  IF "excludePaths" \in DOMAIN given THEN "caller" ELSE "defaults"

\* a variant that works on options.excludePaths itself
excludePathsShared(object) == object

\* lines 135 and 152: [...(options.excludePaths || [])] is a new array
excludePathsCopy(object) == "local"

\* line 182: what a call for one path pushes onto its excludePaths
pushedOfFound(found, opts) ==
  IF found.kind # "desc" THEN <<>>
  ELSE IF Includes(opts.excludePaths,
                   opts.referencePathPrefix \o found.referencePath)
  THEN <<>>
  ELSE <<opts.referencePathPrefix \o found.referencePath>>

RECURSIVE pushedOfPaths(_, _, _, _)

\* line 143, reached when the call for the path returned
pushedAfterPath(modelOrSchema, rest, opts, excludePaths, res) ==
  IF res.kind # "ok" THEN <<>>
  ELSE getExcludePathsFromPipeline(res.pipeline)
         \o pushedOfPaths(
              modelOrSchema, rest, opts,
              excludePaths \o getExcludePathsFromPipeline(res.pipeline))

\* lines 137-145: what a call for a list pushes onto its excludePaths
pushedOfPaths(modelOrSchema, paths, opts, excludePaths) ==
  IF paths = <<>> THEN <<>>
  ELSE pushedAfterPath(modelOrSchema, Tail(paths), opts, excludePaths,
                       getPipelineOfPath(
                         modelOrSchema, Head(paths),
                         [opts EXCEPT !.excludePaths = excludePaths],
                         {<<modelOrSchema, Head(paths)>>}))

\* the pushes of the outermost call onto its excludePaths array
excludePathsPushed(modelOrSchema, p, given) ==
  IF p.isArray
  THEN pushedOfPaths(modelOrSchema, p.paths, mergeOptions(given),
                     mergeOptions(given).excludePaths)
  ELSE pushedOfFound(getNearestReferenceData(getSchema(modelOrSchema),
                                             p.path),
                     mergeOptions(given))

\* the module-level defaultOptions after the call
defaultsAfter(modelOrSchema, p, given) ==
  IF excludePathsCopy(optionsExcludePaths(given)) = "defaults"
  THEN [defaults EXCEPT
          !.excludePaths = @ \o excludePathsPushed(modelOrSchema, p, given)]
  ELSE defaults

\* the caller's path and options after the call: nothing writes to path,
\* to the options object or to its other members
callerAfter(modelOrSchema, p, given) ==
  IF excludePathsCopy(optionsExcludePaths(given)) = "caller"
  THEN [caller EXCEPT
          !.options.excludePaths =
             @ \o excludePathsPushed(modelOrSchema, p, given)]
  ELSE caller

(***************************************************************************)
(* What the emitted stages do to a document when the aggregation engine    *)
(* runs them.  A document maps field paths to values; a value is an        *)
(* identifier, a document, an array, null or missing.                      *)
(***************************************************************************)
Missing == [type |-> "missing"]

NullValue == [type |-> "null"]

IdValue(n) == [type |-> "id", id |-> n]

DocValue(fields) == [type |-> "doc", fields |-> fields]

ArrayValue(items) == [type |-> "array", items |-> items]

\* the items of a sequence that are not missing
RECURSIVE Present(_)
Present(items) ==
  IF items = <<>> THEN <<>>
  ELSE (IF Head(items) = Missing THEN <<>> ELSE <<Head(items)>>)
       \o Present(Tail(items))

\* the value of a field path in a document: through an array the path
\* gives the array of the elements' values
RECURSIVE ResolvePath(_, _)
ResolvePath(v, p) ==
  IF v.type = "array"
  THEN ArrayValue(Present([i \in 1..Len(v.items) |->
                             ResolvePath(v.items[i], p)]))
  ELSE IF v.type # "doc" THEN Missing
  ELSE IF p \in DOMAIN v.fields THEN v.fields[p]
  ELSE LET heads == {k \in DOMAIN v.fields : IsPrefixOf(k \o <<Dot>>, p)}
       IN  IF heads = {} THEN Missing
           ELSE LET k == CHOOSE h \in heads :
                           \A g \in heads : Len(g) <= Len(h)
                IN  ResolvePath(v.fields[k],
                                SubSeq(p, Len(k) + 2, Len(p)))

SetField(v, p, x) ==
  DocValue((p :> x) @@ v.fields)

\* a field and all that is nested under it leave the document
RemoveField(v, p) ==
  DocValue([k \in {h \in DOMAIN v.fields :
                     h # p /\ ~IsPrefixOf(p \o <<Dot>>, h)} |-> v.fields[k]])

\* $indexOfArray: the 0-based index of the first occurrence, -1 when none
IndexOfArray(items, x) ==
  IF \E i \in 1..Len(items) : items[i] = x
  THEN (CHOOSE i \in 1..Len(items) :
          items[i] = x /\ \A j \in 1..(i - 1) : items[j] # x) - 1
  ELSE -1

\* $arrayElemAt: a negative index counts from the end of the array
ArrayElemAt(items, idx) ==
  IF idx >= 0
  THEN IF idx < Len(items) THEN items[idx + 1] ELSE Missing
  ELSE IF -idx <= Len(items) THEN items[Len(items) + idx + 1] ELSE Missing

\* the $lookup stage of getPipeline run on a document
execLookup(v, st, colls) ==
  LET localValue == ResolvePath(v, st.localField)
      wanted == IF localValue.type = "array"
                THEN {localValue.items[i] : i \in 1..Len(localValue.items)}
                ELSE {localValue}
      from == IF st.from \in DOMAIN colls THEN colls[st.from] ELSE <<>>
      Matches(d) == ResolvePath(d, st.foreignField) \in wanted
  IN  SetField(v, st.as, ArrayValue(SelectSeq(from, Matches)))

\* the $addFields stage of getAddFieldsStage run on a document
execAddFields(v, st) ==
  LET input == ResolvePath(v, Tail(st.input))
      found == ResolvePath(v, Tail(st.arrayElemAt))
      ids == ResolvePath(v, Tail(st.indexOfArrayIn))
      Picked(this) ==
        IF ids.type # "array" \/ found.type # "array" THEN NullValue
        ELSE ArrayElemAt(found.items,
                         IndexOfArray(ids.items,
                                      ResolvePath(this,
                                                  Tail(st.indexOfArrayOf))))
      \* $mergeObjects: ['$$this', mergeObject]; a missing value leaves
      \* no field in mergeObject
      Merged(this) ==
        IF Picked(this) = Missing \/ this.type # "doc" THEN this
        ELSE SetField(RemoveField(this, Head(st.mergeKeys)),
                      Join(st.mergeKeys), Picked(this))
  IN  IF input.type # "array" THEN SetField(v, st.field, NullValue)
      ELSE SetField(v, st.field,
                    ArrayValue([i \in 1..Len(input.items) |->
                                  Merged(input.items[i])]))

\* {$addFields: {tmp_...: '$$REMOVE'}} run on a document
execRemove(v, st) == RemoveField(v, st.field)

execStage(v, st, colls) ==
  IF st.stage = "$lookup" THEN execLookup(v, st, colls)
  ELSE IF st.shape = "remerge" THEN execAddFields(v, st)
  ELSE execRemove(v, st)

\* Aggregate.append(pipeline).exec() on one document
RECURSIVE aggregate(_, _, _)
aggregate(v, pipeline, colls) ==
  IF pipeline = <<>> THEN v
  ELSE aggregate(execStage(v, Head(pipeline), colls), Tail(pipeline), colls)

(***************************************************************************)
(* The calls explored: a caller picks a model, a path (or a list of paths) *)
(* and options; the call is then made.                                     *)
(***************************************************************************)
FieldNames == {"_id", "title", "emb", "ref", "refs", "arr", "oid", "bad"}

RootModels == {"LevelOne", "LevelTwo"}

\* the dotted paths of 1..n segments over a set of names
RECURSIVE PathsOver(_, _)
PathsOver(names, n) ==
  IF n = 0 THEN {}
  ELSE {<<a>> : a \in names}
       \cup PathsOver(names, n - 1)
       \cup {<<a, Dot>> \o q : a \in names, q \in PathsOver(names, n - 1)}

Paths == PathsOver(FieldNames, MaxSegments)

\* what callers pass as options
OptionChoices ==
  {<<>>,
   [foreignField |-> <<"foo">>],
   [preserveNullAndEmptyArrays |-> FALSE],
   [foreignField |-> <<"foo">>, preserveNullAndEmptyArrays |-> FALSE,
    excludePaths |-> <<P1("ref")>>],
   [excludePaths |-> <<P2("ref", "ref"), P2("arr", "ref")>>],
   [referencePathPrefix |-> <<"root", Dot>>],
   [parentArrayReference |-> P1("arr")]}

single(p) == [isArray |-> FALSE, path |-> p]

list(ps) == [isArray |-> TRUE, paths |-> ps]

NoResult == [kind |-> "none"]

Init ==
  /\ pc \in {"getNearestReferenceData", "getPipeline"}
  /\ model \in RootModels
  /\ path \in {single(p) : p \in Paths}
  /\ options \in IF pc = "getPipeline" THEN OptionChoices ELSE {<<>>}
  /\ nearest = NoResult
  /\ result = NoResult
  /\ collections = <<>>
  /\ doc = Missing
  /\ out = Missing
  /\ defaults = defaultOptions
  /\ caller = [path |-> path, options |-> options]
  /\ calls = 0

\* a call of the exported getNearestReferenceData
NearestReference ==
  /\ pc = "getNearestReferenceData"
  /\ nearest' = getNearestReferenceData(model, path.path)
  /\ pc' = "returned"
  /\ UNCHANGED <<model, path, options, result, collections, doc, out,
                 defaults, caller, calls>>

\* a call of the exported getPipeline
Compile ==
  /\ pc = "getPipeline"
  /\ result' = getPipeline(model, path, options)
  /\ nearest' = IF path.isArray THEN NoResult
                ELSE getNearestReferenceData(model, path.path)
  /\ pc' = "done"
  /\ defaults' = defaultsAfter(model, path, options)
  /\ caller' = callerAfter(model, path, options)
  /\ calls' = calls + 1
  /\ UNCHANGED <<model, path, options, collections, doc, out>>

Next == NearestReference \/ Compile

Spec == Init /\ [][Next]_vars

(***************************************************************************)
(* Calls of getPipeline with an array of paths.                            *)
(***************************************************************************)
ListNames == {"ref", "refs", "arr"}

\* the sequences of 1..n members of a set
RECURSIVE ListsOver(_, _)
ListsOver(S, n) ==
  IF n = 0 THEN {}
  ELSE {<<x>> : x \in S}
       \cup ListsOver(S, n - 1)
       \cup {<<x>> \o l : x \in S, l \in ListsOver(S, n - 1)}

\* ref, ref.ref, ...: the prefixes of the chain of plain references
RECURSIVE ChainPath(_)
ChainPath(n) == IF n = 1 THEN P1("ref") ELSE ChainPath(n - 1) \o <<Dot, "ref">>

ChainPrefixes == {ChainPath(n) : n \in 1..MaxSegments}

PathLists ==
  ListsOver(PathsOver(ListNames, MaxListSegments), MaxPaths)
    \cup ListsOver(ChainPrefixes, MaxChainPaths)

ListOptionChoices ==
  {<<>>,
   [excludePaths |-> <<P1("ref")>>],
   [foreignField |-> <<"foo">>,
    excludePaths |-> <<P2("ref", "ref"), P2("arr", "ref")>>]}

InitPaths ==
  /\ pc = "getPipeline"
  /\ model \in RootModels
  /\ path \in {list(ps) : ps \in PathLists}
  /\ options \in ListOptionChoices
  /\ nearest = NoResult
  /\ result = NoResult
  /\ collections = <<>>
  /\ doc = Missing
  /\ out = Missing
  /\ defaults = defaultOptions
  /\ caller = [path |-> path, options |-> options]
  /\ calls = 0

NextPaths == Compile

SpecPaths == InitPaths /\ [][NextPaths]_vars

(***************************************************************************)
(* Calls, of one path or of a list, whose paths run over references,       *)
(* arrays of references and fields that refer to an unregistered model.    *)
(***************************************************************************)
UnknownNames == {"ref", "refs", "bad"}

UnknownPaths == PathsOver(UnknownNames, MaxListSegments)

UnknownOptionChoices ==
  {<<>>,
   [excludePaths |-> <<P1("bad")>>],
   [excludePaths |-> <<P2("ref", "bad"), P2("refs", "bad")>>]}

InitUnknown ==
  /\ pc = "getPipeline"
  /\ model \in RootModels
  /\ path \in {single(p) : p \in UnknownPaths}
                \cup {list(ps) : ps \in ListsOver(UnknownPaths, MaxPaths)}
  /\ options \in UnknownOptionChoices
  /\ nearest = NoResult
  /\ result = NoResult
  /\ collections = <<>>
  /\ doc = Missing
  /\ out = Missing
  /\ defaults = defaultOptions
  /\ caller = [path |-> path, options |-> options]
  /\ calls = 0

NextUnknown == Compile

SpecUnknown == InitUnknown /\ [][NextUnknown]_vars

(***************************************************************************)
(* Calls made one after another in one process: the module-level           *)
(* defaultOptions lives on from call to call.                              *)
(***************************************************************************)
CallNames == {"ref", "arr"}

CallPaths ==
  {single(p) : p \in PathsOver(CallNames, MaxListSegments)}
    \cup {list(ps) :
            ps \in ListsOver({P1("ref"), P2("ref", "ref"), P2("arr", "ref")},
                             MaxPaths)}

CallOptionChoices ==
  {<<>>,
   [excludePaths |-> <<P1("ref")>>],
   [foreignField |-> <<"foo">>, excludePaths |-> <<>>]}

InitCalls ==
  /\ pc = "getPipeline"
  /\ model \in RootModels
  /\ path \in CallPaths
  /\ options \in CallOptionChoices
  /\ nearest = NoResult
  /\ result = NoResult
  /\ collections = <<>>
  /\ doc = Missing
  /\ out = Missing
  /\ defaults = defaultOptions
  /\ caller = [path |-> path, options |-> options]
  /\ calls = 0

\* the caller goes on to its next call, with arguments of its choice
NextCall ==
  /\ pc = "done"
  /\ calls < MaxCalls
  /\ model' \in RootModels
  /\ path' \in CallPaths
  /\ options' \in CallOptionChoices
  /\ caller' = [path |-> path', options |-> options']
  /\ nearest' = NoResult
  /\ result' = NoResult
  /\ pc' = "getPipeline"
  /\ UNCHANGED <<collections, doc, out, defaults, calls>>

NextCalls == Compile \/ NextCall

SpecCalls == InitCalls /\ [][NextCalls]_vars

(***************************************************************************)
(* Calls on a schema whose lookup resolves paths through a document array. *)
(***************************************************************************)
SubpathsSchemas == {"LevelOne.subpaths"}

InitSubpaths ==
  /\ pc \in {"getNearestReferenceData", "getPipeline"}
  /\ model \in SubpathsSchemas
  /\ path \in {single(p) : p \in PathsOver(FieldNames, MaxListSegments)}
  /\ options = <<>>
  /\ nearest = NoResult
  /\ result = NoResult
  /\ collections = <<>>
  /\ doc = Missing
  /\ out = Missing
  /\ defaults = defaultOptions
  /\ caller = [path |-> path, options |-> options]
  /\ calls = 0

NextSubpaths == NearestReference \/ Compile

SpecSubpaths == InitSubpaths /\ [][NextSubpaths]_vars

(***************************************************************************)
(* A compiled arr.ref pipeline run on a stored document.                   *)
(***************************************************************************)
\* the sequences of distinct members of a set: a collection's stored order
RECURSIVE Orderings(_)
Orderings(S) ==
  {<<>>} \cup {<<x>> \o l : x \in S, l \in {<<>>}} \cup
  UNION {{<<x>> \o l : l \in Orderings(S \ {x}) \ {<<>>}} : x \in S}

\* an array element whose ref is the identifier n, unset when n = 0
Element(n) ==
  DocValue(IF n = 0 THEN <<>> ELSE (P1("ref") :> IdValue(n)))

StoredDocument(n) == DocValue(P1("_id") :> IdValue(n))

ElementArrays ==
  {<<>>} \cup
  {[i \in 1..Len(l) |-> Element(l[i])] : l \in ListsOver(0..MaxIds, MaxElems)}

InitExec ==
  /\ pc = "getPipeline"
  /\ model \in RootModels
  /\ path = single(P2("arr", "ref"))
  /\ options = <<>>
  /\ nearest = NoResult
  /\ result = NoResult
  /\ \E stored \in Orderings(1..MaxIds) :
       collections =
         [c \in {Models[m].collectionName : m \in DOMAIN Models} |->
            [i \in 1..Len(stored) |-> StoredDocument(stored[i])]]
  /\ \E elems \in ElementArrays :
       doc = DocValue(P1("arr") :> ArrayValue(elems))
  /\ out = Missing
  /\ defaults = defaultOptions
  /\ caller = [path |-> path, options |-> options]
  /\ calls = 0

\* the returned pipeline is appended to an aggregate over the document
Aggregate ==
  /\ pc = "done"
  /\ result.kind = "ok"
  /\ \A i \in 1..Len(result.pipeline) : result.pipeline[i].stage # "$unwind"
  /\ out' = aggregate(doc, result.pipeline, collections)
  /\ pc' = "aggregated"
  /\ UNCHANGED <<model, path, options, nearest, result, collections, doc,
                 defaults, caller, calls>>

NextExec == Compile \/ Aggregate

SpecExec == InitExec /\ [][NextExec]_vars

(***************************************************************************)
(* What the claims speak of.                                               *)
(***************************************************************************)
Returned == pc = "done" /\ result.kind = "ok"

\* the option a caller gave, or the documented default
Given(name, default) ==
  IF name \in DOMAIN options THEN options[name] ELSE default

DefaultOptions == options = <<>>

\* a plain field: declared, neither a reference nor an array
PlainField(m, p) ==
  LET t == SchemaPath(getSchema(m), p)
  IN  t.defined /\ t.ref = Undefined /\ ~t.isMongooseArray
        /\ ~t.isMongooseDocumentArray

\* the target of the plain reference field named by the one segment seg of
\* model m, Undefined when seg is no such field
PlainReferenceTarget(m, seg) ==
  IF m \notin DOMAIN Models THEN Undefined
  ELSE LET t == SchemaPath(Models[m].schema, seg)
       IN  IF t.defined /\ t.instance = "ObjectID" /\ t.ref \in DOMAIN Models
           THEN t.ref ELSE Undefined

\* the models reached along segments that are each a plain reference
RECURSIVE ChainTargets(_, _)
ChainTargets(m, segs) ==
  IF segs = <<>> THEN <<>>
  ELSE LET t == PlainReferenceTarget(m, Head(segs))
       IN  <<t>> \o ChainTargets(t, Tail(segs))

IsReferenceChain(m, p) ==
  LET ts == ChainTargets(m, Split(p))
  IN  \A i \in 1..Len(ts) : ts[i] # Undefined

\* the first k segments of a dotted path
PrefixOfPath(p, k) == Join(SubSeq(Split(p), 1, k))

\* join and flatten of the k-th reference of a chain, as the spec words them
ChainJoin(m, p, k) ==
  [stage |-> "$lookup",
   from |-> Models[ChainTargets(m, Split(p))[k]].collectionName,
   localField |-> PrefixOfPath(p, k),
   foreignField |-> <<"_id">>,
   as |-> PrefixOfPath(p, k)]

ChainFlatten(p, k) ==
  [stage |-> "$unwind", path |-> <<"$">> \o PrefixOfPath(p, k),
   preserveNullAndEmptyArrays |-> TRUE]

IsJoin(st) == st.stage = "$lookup"

IsFlatten(st) == st.stage = "$unwind"

NumSegments(p) == Len(Split(p))

\* C1: for every schema and every path, of one segment or of several, whose
\* full path resolves to a plain field (no reference, no array),
\* getNearestReferenceData returns nothing and getPipeline returns the empty
\* list.
C1_PlainFieldCompilesToNothing ==
  (pc = "done" /\ ~path.isArray /\ PlainField(model, path.path))
    => (nearest = Absent /\ result = Ok(<<>>))

\* C2: with default options a path of N chained plain references compiles
\* to exactly 2N stages: for k = 1..N the join of the k-th target collection
\* with localField = as = the k-segment prefix, then the flatten of that
\* prefix.
C2_ChainGivesJoinAndFlattenPerSegment ==
  (pc = "done" /\ ~path.isArray /\ DefaultOptions
     /\ IsReferenceChain(model, path.path))
    => /\ result.kind = "ok"
       /\ Len(result.pipeline) = 2 * NumSegments(path.path)
       /\ \A k \in 1..NumSegments(path.path) :
            /\ result.pipeline[2 * k - 1] = ChainJoin(model, path.path, k)
            /\ result.pipeline[2 * k] = ChainFlatten(path.path, k)

C2_Witness ==
  /\ Returned /\ DefaultOptions /\ ~path.isArray
  /\ path.path = P3("ref", "ref", "ref")
  /\ Len(result.pipeline) = 6

JoinIndexes == {i \in 1..Len(result.pipeline) : IsJoin(result.pipeline[i])}

\* C3: whatever the schema, the list of requested paths (any order,
\* repetitions, shared prefixes) and the initial excludePaths, the returned
\* stage list never holds two join stages with the same localField.
C3_NoTwoJoinsOfOnePath ==
  Returned =>
    \A i, j \in JoinIndexes :
      result.pipeline[i].localField = result.pipeline[j].localField => i = j

C3_Witness ==
  /\ Returned /\ path.isArray
  /\ path.paths = <<P2("ref", "ref"), P1("ref"), P2("ref", "ref")>>
  /\ Given("excludePaths", <<>>) = <<>>
  /\ Cardinality(JoinIndexes) = 2

\* the longest of a list of paths, in segments
RECURSIVE MaxSegmentsOf(_)
MaxSegmentsOf(ps) ==
  IF ps = <<>> THEN 0
  ELSE LET n == NumSegments(Head(ps))
           m == MaxSegmentsOf(Tail(ps))
       IN  IF n > m THEN n ELSE m

\* every path of the list is a prefix of one chain of plain references
IsListOfChainPrefixes(m, ps) ==
  /\ ps # <<>>
  /\ \A i \in 1..Len(ps) : ps[i] \in ChainPrefixes
  /\ IsReferenceChain(m, ChainPath(MaxSegmentsOf(ps)))

\* C4: for a list of paths that are each a prefix of one chain of plain
\* references, in any order and with repetitions, getPipeline returns
\* exactly 2*D stages, D the number of segments of the longest path, and
\* for k = 0..D-1 the stage at index 2k is the join whose localField is the
\* (k+1)-segment prefix of the chain.
C4_PrefixListCompilesLongestChainOnce ==
  (pc = "done" /\ path.isArray /\ DefaultOptions
     /\ IsListOfChainPrefixes(model, path.paths))
    => /\ result.kind = "ok"
       /\ Len(result.pipeline) = 2 * MaxSegmentsOf(path.paths)
       /\ \A k \in 0..(MaxSegmentsOf(path.paths) - 1) :
            /\ IsJoin(result.pipeline[2 * k + 1])
            /\ result.pipeline[2 * k + 1].localField = ChainPath(k + 1)

C4_Witness ==
  /\ Returned /\ path.isArray /\ DefaultOptions
  /\ path.paths = <<P2("ref", "ref"), P1("ref"), P2("ref", "ref"),
                    P3("ref", "ref", "ref")>>
  /\ Len(result.pipeline) = 6

\* path is arr.ref: arr an array of documents of model m, ref a plain
\* reference field of its element schema
IsReferenceInArrayOfDocuments(m, p) ==
  LET segs == Split(p) IN
  /\ Len(segs) = 2
  /\ LET a == SchemaPath(getSchema(m), segs[1])
     IN  /\ a.defined /\ a.isMongooseDocumentArray
         /\ LET r == SchemaPath(a.schema, segs[2])
            IN  r.defined /\ r.instance = "ObjectID" /\ r.ref \in DOMAIN Models

ElementReferenceTarget(m, p) ==
  SchemaPath(SchemaPath(getSchema(m), Split(p)[1]).schema, Split(p)[2]).ref

\* the call names no prefix and no parent array and does not exclude p
PlainCallOf(p) ==
  /\ "referencePathPrefix" \notin DOMAIN options
  /\ "parentArrayReference" \notin DOMAIN options
  /\ ~Includes(Given("excludePaths", <<>>), p)

\* C5: compiling arr.ref, arr an array of documents whose element schema
\* has the plain reference ref, gives exactly three stages: a join with
\* localField arr.ref that writes to a temporary field other than arr.ref,
\* a remerge stage that rewrites arr by mapping each element to the merge of
\* the element with its looked-up document at ref, and the removal of the
\* temporary field.
C5_ArrayOfDocumentsGivesJoinRemergeRemoval ==
  (pc = "done" /\ ~path.isArray /\ PlainCallOf(path.path)
     /\ IsReferenceInArrayOfDocuments(model, path.path))
    => LET arr == Split(path.path)[1]
           ref == Split(path.path)[2]
           tmp == <<"tmp_">> \o path.path
       IN
       /\ result.kind = "ok"
       /\ Len(result.pipeline) = 3
       /\ result.pipeline[1] =
            [stage |-> "$lookup",
             from |-> Models[ElementReferenceTarget(model, path.path)]
                        .collectionName,
             localField |-> path.path,
             foreignField |-> Given("foreignField", <<"_id">>),
             as |-> tmp]
       /\ tmp # path.path
       /\ result.pipeline[2] =
            [stage |-> "$addFields", shape |-> "remerge",
             field |-> arr,
             input |-> <<"$">> \o arr,
             mergeKeys |-> <<ref>>,
             arrayElemAt |-> <<"$">> \o tmp,
             indexOfArrayIn |-> <<"$">> \o tmp \o <<".", "_id">>,
             indexOfArrayOf |-> <<"$$this.">> \o ref]
       /\ result.pipeline[3] =
            [stage |-> "$addFields", shape |-> "remove",
             field |-> <<"tmp_">> \o arr, value |-> <<"$$REMOVE">>]

C5_Witness ==
  /\ Returned /\ ~path.isArray /\ DefaultOptions
  /\ model = "LevelOne" /\ path.path = P2("arr", "ref")
  /\ Len(result.pipeline) = 3

\* p names an array whose elements are references to a registered model
IsArrayOfReferences(m, p) ==
  LET t == SchemaPath(getSchema(m), p)
  IN  t.defined /\ t.isMongooseArray /\ ~t.isMongooseDocumentArray
        /\ t.casterRef \in DOMAIN Models

IsIdentifierWithoutTarget(m, p) ==
  LET t == SchemaPath(getSchema(m), p)
  IN  NumSegments(p) = 1 /\ t.defined /\ t.instance = "ObjectID"
        /\ t.ref = Undefined

\* C8: the path _id alone compiles to the empty stage list whatever the
\* schema, and so does any one-segment path that names an identifier-typed
\* field declaring no reference target.
C8_IdentityKeyCompilesToNothing ==
  (pc = "done" /\ ~path.isArray
     /\ (path.path = P1("_id")
           \/ IsIdentifierWithoutTarget(model, path.path)))
    => result = Ok(<<>>)

C8_Witness ==
  /\ pc = "done" /\ ~path.isArray /\ path.path = P1("oid")
  /\ IsIdentifierWithoutTarget(model, path.path)
  /\ result = Ok(<<>>)

\* C9: every join stage of the returned list, at every depth of the
\* recursion, has foreignField equal to the caller's foreignField option
\* (_id when the option is not given).
C9_EveryJoinUsesCallersForeignField ==
  Returned =>
    \A i \in JoinIndexes :
      result.pipeline[i].foreignField = Given("foreignField", <<"_id">>)

\* C10: every flatten stage of the returned list, at every depth of the
\* recursion, carries the caller's preserveNullAndEmptyArrays (true when
\* the option is not given).
C10_EveryFlattenUsesCallersPreserve ==
  Returned =>
    \A i \in 1..Len(result.pipeline) :
      IsFlatten(result.pipeline[i]) =>
        result.pipeline[i].preserveNullAndEmptyArrays
          = Given("preserveNullAndEmptyArrays", TRUE)

ArrayOf(v) == ResolvePath(v, P1("arr")).items

\* C6: running the three stages compiled for arr.ref leaves arr with its
\* length, and what is placed at element i's ref is a joined document whose
\* identity key is element i's original reference value: no element
\* receives a document matched by another key, an element without match
\* included.
C6_RemergeKeepsLengthAndCorrelation ==
  pc = "aggregated" =>
    /\ ResolvePath(out, P1("arr")).type = "array"
    /\ Len(ArrayOf(out)) = Len(ArrayOf(doc))
    /\ \A i \in 1..Len(ArrayOf(doc)) :
         LET was == ResolvePath(ArrayOf(doc)[i], P1("ref"))
             now == ResolvePath(ArrayOf(out)[i], P1("ref"))
         IN  now # was =>
               /\ now.type = "doc"
               /\ ResolvePath(now, P1("_id")) = was

\* the options of the call with the caller's excludePaths left out
OptionsWithoutExcludePaths ==
  [k \in DOMAIN options \ {"excludePaths"} |-> options[k]]

\* a stage list without the stages of the steps whose join has its
\* localField in excluded: a step is a join and the stages up to the next
\* join
RECURSIVE WithoutStepsOf(_, _, _)
WithoutStepsOf(pipeline, excluded, dropping) ==
  IF pipeline = <<>> THEN <<>>
  ELSE LET st == Head(pipeline)
           drop == IF IsJoin(st) THEN Includes(excluded, st.localField)
                   ELSE dropping
       IN  (IF drop THEN <<>> ELSE <<st>>)
             \o WithoutStepsOf(Tail(pipeline), excluded, drop)

\* the path a stage works on: the localField of a join, the path of a
\* flatten, the joined path a remerge reads its documents from
StagePaths(st) ==
  IF IsJoin(st) THEN {st.localField}
  ELSE IF IsFlatten(st) THEN {Tail(st.path)}
  ELSE IF st.shape = "remerge" THEN {Tail(Tail(st.arrayElemAt))}
  ELSE {}

\* C11: for every path P of the caller's excludePaths no stage is emitted
\* for the step whose full path is P (no join, flatten, remerge, and no
\* removal, which only ever follows a remerge), and the rest of the
\* requested path is still compiled: the result is the result of the same
\* call without excludePaths, less the stages of the excluded steps.
C11_ExcludedStepEmitsNothingRestCompiled ==
  (pc = "done" /\ ~path.isArray /\ "excludePaths" \in DOMAIN options)
    => LET unexcluded ==
             getPipeline(model, path, OptionsWithoutExcludePaths)
       IN
       /\ result.kind = unexcluded.kind
       /\ result.kind = "ok" =>
            /\ result.pipeline =
                 WithoutStepsOf(unexcluded.pipeline, options.excludePaths,
                                FALSE)
            /\ \A i \in 1..Len(result.pipeline) :
                 /\ \A q \in StagePaths(result.pipeline[i]) :
                      ~Includes(options.excludePaths, q)
                 /\ (result.pipeline[i].stage = "$addFields"
                       /\ result.pipeline[i].shape = "remove")
                      => (i > 1 /\ result.pipeline[i - 1].stage = "$addFields"
                            /\ result.pipeline[i - 1].shape = "remerge")

C11_Witness ==
  /\ Returned /\ ~path.isArray /\ model = "LevelOne"
  /\ path.path = P3("ref", "ref", "ref")
  /\ options = [excludePaths |-> <<P2("ref", "ref"), P2("arr", "ref")>>]
  /\ Len(result.pipeline) = 4
  /\ result.pipeline[3].localField = P3("ref", "ref", "ref")

\* the localFields of the join stages of a stage list, in order
JoinLocalFields(pipeline) ==
  LET joins == SelectSeq(pipeline, IsJoin)
  IN  [i \in 1..Len(joins) |-> joins[i].localField]

\* R1 ++ ... ++ Ri: Rk the result of compiling the k-th path alone with
\* the caller's options, excludePaths being the caller's extended with the
\* localFields of the joins of R1..R(k-1); a raise of some Rk is the outcome
RECURSIVE CompiledOneByOne(_)
CompiledOneByOne(i) ==
  IF i = 0 THEN Ok(<<>>)
  ELSE LET before == CompiledOneByOne(i - 1)
       IN  IF before.kind # "ok" THEN before
           ELSE LET alone ==
                      getPipeline(
                        model, single(path.paths[i]),
                        [k \in DOMAIN options \cup {"excludePaths"} |->
                           IF k = "excludePaths"
                           THEN Given("excludePaths", <<>>)
                                  \o JoinLocalFields(before.pipeline)
                           ELSE options[k]])
                IN  IF alone.kind # "ok" THEN alone
                    ELSE Ok(before.pipeline \o alone.pipeline)

\* C12: for a list of paths getPipeline returns R1 ++ ... ++ Rn in input
\* order, Ri being the result of compiling the i-th path alone with the same
\* options except that excludePaths is the caller's excludePaths extended
\* with the localField of every join stage of R1..R(i-1).
C12_ListIsConcatenationUnderGrowingExclusion ==
  (pc = "done" /\ path.isArray)
    => result = CompiledOneByOne(Len(path.paths))

C12_Witness ==
  /\ Returned /\ path.isArray /\ model = "LevelOne"
  /\ path.paths = <<P2("ref", "ref"), P2("ref", "refs")>>
  /\ options = <<>>
  /\ Len(result.pipeline) = 5
  /\ JoinLocalFields(result.pipeline)
       = <<P1("ref"), P2("ref", "ref"), P2("ref", "refs")>>

\* the call gives neither prefix nor parent array nor excludePaths
TopLevelCall ==
  DOMAIN options \subseteq {"foreignField", "preserveNullAndEmptyArrays"}

\* the first segment of a path and the path after it
FirstSegment(p) == <<Head(p)>>

AfterFirstSegment(p) == Tail(Tail(p))

\* p is A.B, A a plain reference field of model m
StartsWithPlainReference(m, p) ==
  /\ NumSegments(p) >= 2
  /\ PlainReferenceTarget(m, FirstSegment(p)) # Undefined

\* the join and the flatten of the plain reference A of model m
JoinAndFlattenOf(m, A) ==
  <<[stage |-> "$lookup",
     from |-> Models[PlainReferenceTarget(m, A)].collectionName,
     localField |-> A,
     foreignField |-> Given("foreignField", <<"_id">>),
     as |-> A],
    [stage |-> "$unwind", path |-> <<"$">> \o A,
     preserveNullAndEmptyArrays |->
       Given("preserveNullAndEmptyArrays", TRUE)]>>

\* the stages of A.B are the join and flatten of A, then what B compiles to
\* against the target of A under the prefix 'A.'
C13_Decomposes ==
  (pc = "done" /\ ~path.isArray /\ TopLevelCall
     /\ StartsWithPlainReference(model, path.path))
    => LET A == FirstSegment(path.path)
           rest == getPipeline(
                     PlainReferenceTarget(model, FirstSegment(path.path)),
                     single(AfterFirstSegment(path.path)),
                     [referencePathPrefix |-> A \o <<Dot>>])
       IN  IF rest.kind = "ok"
           THEN result = Ok(JoinAndFlattenOf(model, A) \o rest.pipeline)
           ELSE result = rest

\* C13: for a path A.B, A a plain reference field of the root schema,
\* getPipeline returns the join and the flatten of A followed by exactly the
\* stages B compiles to against the target of A with referencePathPrefix
\* 'A.'; when B is a plain field of the referenced schema the result is
\* exactly those two stages.
C13_ReferenceThenRest ==
  /\ C13_Decomposes
  /\ (pc = "done" /\ ~path.isArray /\ TopLevelCall
        /\ StartsWithPlainReference(model, path.path)
        /\ PlainField(PlainReferenceTarget(model, FirstSegment(path.path)),
                      AfterFirstSegment(path.path)))
       => result = Ok(JoinAndFlattenOf(model, FirstSegment(path.path)))

\* the number of leading segments of segs that name a declared leaf of the
\* schema, 0 when no prefix of segs does
LeafAt(schema, segs) ==
  LET ks == {k \in 1..Len(segs) :
               SchemaPath(schema, Join(SubSeq(segs, 1, k))).defined}
  IN  IF ks = {} THEN 0 ELSE CHOOSE k \in ks : \A j \in ks : k <= j

\* the first k segments of segs lead into an embedded object of the schema
LeadsIntoEmbedded(schema, segs, k) ==
  \E q \in DOMAIN Schemas[schema] :
    IsPrefixOf(Join(SubSeq(segs, 1, k)) \o <<Dot>>, q)

\* the schema in which the segments after a field of type t are looked up,
\* Undefined when t leads nowhere
SchemaBehind(t) ==
  IF t.isMongooseDocumentArray THEN t.schema
  ELSE IF t.ref \in DOMAIN Models THEN Models[t.ref].schema
  ELSE IF t.casterRef \in DOMAIN Models THEN Models[t.casterRef].schema
  ELSE Undefined

NotInQuestion == 0 - 1

\* the position in segs of the first segment that does not exist where it
\* is reached; 0 when every segment exists, NotInQuestion when the path
\* runs on behind a reference whose target is not registered or behind an
\* array whose elements declare no registered target
RECURSIVE MissingSegment(_, _)
MissingSegment(schema, segs) ==
  LET k == LeafAt(schema, segs) IN
  IF k = 0
  THEN LET js == {j \in 1..Len(segs) : ~LeadsIntoEmbedded(schema, segs, j)}
       IN  IF js = {} THEN 0 ELSE CHOOSE j \in js : \A i \in js : j <= i
  ELSE IF k = Len(segs) THEN 0
  ELSE LET t == SchemaPath(schema, Join(SubSeq(segs, 1, k))) IN
       IF \/ (t.ref # Undefined /\ t.ref \notin DOMAIN Models)
          \/ (t.isMongooseArray /\ ~t.isMongooseDocumentArray
                /\ t.casterRef \notin DOMAIN Models)
       THEN NotInQuestion
       ELSE IF SchemaBehind(t) = Undefined THEN k + 1
       ELSE LET r == MissingSegment(SchemaBehind(t),
                                    SubSeq(segs, k + 1, Len(segs)))
            IN  IF r > 0 THEN k + r ELSE r

\* C14: a path with a segment that does not exist where it is reached (at
\* the root, in an embedded object, behind a resolved reference, in the
\* element schema of an array of documents) raises no error and compiles to
\* stages of the steps before that segment only, to none when it is the
\* first.
C14_MissingSegmentCompilesQuietly ==
  (pc = "done" /\ ~path.isArray
     /\ MissingSegment(getSchema(model), Split(path.path)) > 0)
    => LET i == MissingSegment(getSchema(model), Split(path.path)) IN
       /\ result.kind = "ok"
       /\ i = 1 => result.pipeline = <<>>
       /\ \A n \in 1..Len(result.pipeline) :
            \A q \in StagePaths(result.pipeline[n]) :
              NumSegments(ReplaceFirst(
                q, Given("referencePathPrefix", <<>>))) < i

\* walking segs from the schema reaches a reference, or an array of
\* references, that declares a target nobody registered
RECURSIVE ReachesUnregistered(_, _)
ReachesUnregistered(schema, segs) ==
  LET k == LeafAt(schema, segs) IN
  IF k = 0 THEN FALSE
  ELSE LET t == SchemaPath(schema, Join(SubSeq(segs, 1, k))) IN
       IF \/ (t.ref # Undefined /\ t.ref \notin DOMAIN Models)
          \/ (t.isMongooseArray /\ ~t.isMongooseDocumentArray
                /\ t.casterRef # Undefined
                /\ t.casterRef \notin DOMAIN Models)
       THEN TRUE
       ELSE IF k = Len(segs) \/ SchemaBehind(t) = Undefined THEN FALSE
       ELSE ReachesUnregistered(SchemaBehind(t),
                                SubSeq(segs, k + 1, Len(segs)))

RequestedPaths == IF path.isArray THEN path.paths ELSE <<path.path>>

SomePathReachesUnregistered ==
  \E i \in 1..Len(RequestedPaths) :
    ReachesUnregistered(getSchema(model), Split(RequestedPaths[i]))

\* C15: when a reference or an array of references reached while walking
\* any requested path declares a target that has no registered schema,
\* getPipeline raises the lookup failure and returns no stage list, not a
\* partial one either, even when earlier paths or earlier segments resolved
\* and even when the join of that field is in excludePaths.
C15_UnregisteredTargetRaises ==
  (pc = "done" /\ SomePathReachesUnregistered)
    => result = Throws("MissingSchemaError")

C15_Witness ==
  /\ pc = "done" /\ path.isArray /\ model = "LevelOne"
  /\ path.paths = <<P2("ref", "ref"), P2("ref", "bad")>>
  /\ options = [excludePaths |-> <<P2("ref", "bad"), P2("refs", "bad")>>]
  /\ result = Throws("MissingSchemaError")

\* C16: a call of getPipeline changes nothing but its result: after the
\* call, returned or raised, the caller's path list, options and
\* excludePaths are what was passed and the module-level defaultOptions,
\* its excludePaths included, is what the module declares; so the outcome
\* of a call is what the same call gives when made again, whatever calls
\* were made before.
C16_CallLeavesArgumentsAndDefaultsAlone ==
  pc = "done" =>
    /\ caller = [path |-> path, options |-> options]
    /\ defaults = defaultOptions
    /\ result = getPipeline(model, path, options)

C16_Witness ==
  /\ pc = "done" /\ calls = MaxCalls /\ model = "LevelOne"
  /\ path = list(<<P2("ref", "ref"), P2("arr", "ref")>>)
  /\ options = <<>>
  /\ excludePathsPushed(model, path, options)
       = <<P1("ref"), P2("ref", "ref"), P2("arr", "ref")>>
  /\ defaults.excludePaths = <<>>

\* the first declared field met along p is an array of documents
BoundaryIsArrayOfDocuments(m, p) ==
  LET k == LeafAt(getSchema(m), Split(p))
  IN  /\ k > 0
      /\ SchemaPath(getSchema(m), Join(SubSeq(Split(p), 1, k)))
           .isMongooseDocumentArray

\* the element schema of that array and the segments of p behind it
ElementSchemaOf(m, p) ==
  SchemaPath(getSchema(m),
             Join(SubSeq(Split(p), 1, LeafAt(getSchema(m), Split(p)))))
    .schema

BehindArray(m, p) ==
  Join(SubSeq(Split(p), LeafAt(getSchema(m), Split(p)) + 1, Len(Split(p))))

\* C17: when the nearest boundary along a path is an array of documents
\* and the search of its element schema with the remaining segments
\* returns nothing (the path names the array only, or goes on to a plain or
\* missing field of the element schema), getNearestReferenceData returns
\* nothing and getPipeline returns the empty list.
C17_ArrayOfDocumentsWithoutReferenceIsAbsent ==
  (pc \in {"returned", "done"} /\ ~path.isArray
     /\ BoundaryIsArrayOfDocuments(model, path.path)
     /\ getNearestReferenceData(ElementSchemaOf(model, path.path),
                                BehindArray(model, path.path)) = Absent)
    => /\ nearest = Absent
       /\ pc = "done" => result = Ok(<<>>)

\* p passes through an array of documents, the first declared field along
\* it, and goes on to a field its element schema declares
ContinuesIntoElementSchema(m, p) ==
  /\ BoundaryIsArrayOfDocuments(m, p)
  /\ LeafAt(getSchema(m), Split(p)) < Len(Split(p))
  /\ SchemaPath(ElementSchemaOf(m, p), BehindArray(m, p)).defined

\* C18: for a path that passes through an array of documents arr and goes
\* on to a field of its element schema, getNearestReferenceData returns no
\* plain-reference descriptor: any descriptor returned has
\* isArrayOfDocuments and arrayField the path up to and including arr, also
\* when schema.path resolves the full path itself.
C18_ArrayBoundaryWinsOverFullPath ==
  (pc \in {"returned", "done"} /\ ~path.isArray
     /\ ContinuesIntoElementSchema(model, path.path)
     /\ nearest.kind = "desc")
    => /\ nearest.isArray
       /\ nearest.isArrayOfDocuments
       /\ nearest.arrayField =
            PrefixOfPath(path.path, LeafAt(getSchema(model), Split(path.path)))

\* C19: every descriptor getNearestReferenceData returns is well formed: it
\* has a referencePath, a target collection name and a target model;
\* isArrayOfDocuments implies isArray; arrayField and referenceField are
\* present exactly when isArrayOfDocuments, and then referencePath is
\* arrayField + '.' + referenceField.
C19_DescriptorIsWellFormed ==
  (pc \in {"returned", "done"} /\ nearest.kind = "desc")
    => /\ nearest.referencePath \notin {<<>>, UndefinedString}
       /\ nearest.referenceCollectionName # Undefined
       /\ nearest.referenceModel \in DOMAIN Models
       /\ nearest.isArrayOfDocuments => nearest.isArray
       /\ nearest.isArrayOfDocuments <=> nearest.arrayField # UndefinedString
       /\ nearest.isArrayOfDocuments
            <=> nearest.referenceField # UndefinedString
       /\ nearest.isArrayOfDocuments =>
            nearest.referencePath =
              nearest.arrayField \o <<Dot>> \o nearest.referenceField

\* the step of a call that has no parent array active, found a reference
\* and has more of the path to compile behind it
StepGoesDeeper ==
  /\ Returned /\ ~path.isArray
  /\ Given("parentArrayReference", <<>>) = <<>>
  /\ nearest.kind = "desc"
  /\ nearest.referenceModel \in DOMAIN Models
  /\ path.path # nearest.referencePath

\* C20: when a step has no outer parentArrayReference active and the path
\* goes deeper, the recursive call receives parentArrayReference = the
\* step's arrayField (arr for the reference arr.ref) if and only if the step
\* was an array-of-documents step; after a plain reference or an array of
\* references none is introduced.
C20_ParentArrayIsArrayFieldOfDocumentsStep ==
  StepGoesDeeper =>
    parentArrayReferenceOf(nearest, mergeOptions(options))
      = IF nearest.isArrayOfDocuments THEN nearest.arrayField ELSE <<>>

IsRemerge(st) == st.stage = "$addFields" /\ st.shape = "remerge"

\* the joins of the returned list that no flatten follows: the array steps
ArraySteps ==
  {i \in JoinIndexes :
     i = Len(result.pipeline) \/ ~IsFlatten(result.pipeline[i + 1])}

\* the index of the join of the step that set parentArrayReference: 0 when
\* the caller gave one, the first array step otherwise, the length of the
\* list when there is none
ParentArraySetAt ==
  IF Given("parentArrayReference", <<>>) # <<>> THEN 0
  ELSE IF ArraySteps = {} THEN Len(result.pipeline)
  ELSE CHOOSE i \in ArraySteps : \A j \in ArraySteps : i <= j

\* the joins of the steps below the one that set parentArrayReference
JoinsBelowParentArray == {i \in JoinIndexes : i > ParentArraySetAt}

\* C21: along one recursion chain of getPipeline, once parentArrayReference
\* is set every deeper step, whatever kind of field it resolves, is compiled
\* under that same value: each is a join followed by a remerge, none is
\* flattened, and all their remerge stages rewrite the same array field, the
\* caller's parentArrayReference when the caller gave one.
C21_ParentArrayDoesNotCompound ==
  (Returned /\ ~path.isArray)
    => /\ \A i \in JoinsBelowParentArray :
            /\ i < Len(result.pipeline)
            /\ IsRemerge(result.pipeline[i + 1])
       /\ \A i \in 1..Len(result.pipeline) :
            i > ParentArraySetAt => ~IsFlatten(result.pipeline[i])
       /\ \A i, j \in JoinsBelowParentArray :
            result.pipeline[i + 1].field = result.pipeline[j + 1].field
       /\ Given("parentArrayReference", <<>>) # <<>> =>
            \A i \in JoinsBelowParentArray :
              result.pipeline[i + 1].field = options.parentArrayReference

C21_Witness ==
  /\ Returned /\ ~path.isArray /\ model = "LevelOne" /\ options = <<>>
  /\ path.path = <<"arr", Dot, "ref", Dot, "ref", Dot, "ref">>
  /\ Cardinality(JoinsBelowParentArray) = 2
  /\ \A i \in JoinsBelowParentArray :
       result.pipeline[i + 1].field = P2("arr", "ref")

IsRemoval(st) == st.stage = "$addFields" /\ st.shape = "remove"

\* a is the dotted path b or a path b goes through
IsPathOrAncestor(a, b) == a = b \/ IsPrefixOf(a \o <<Dot>>, b)

\* the stages of the step whose join is at index i address the outermost
\* document: the join reads and writes the prefixed path, a flatten unwinds
\* it, a remerge rewrites an array on the way to it, element by element at
\* the rest of it, and the removal names a temporary field of such a path
StepIsRelativeToOutermost(i) ==
  LET L == result.pipeline[i].localField
      next == result.pipeline[i + 1]
  IN  /\ IsPrefixOf(Given("referencePathPrefix", <<>>), L)
      /\ result.pipeline[i].as \in {L, <<Tmp>> \o L}
      /\ i < Len(result.pipeline) =>
           /\ IsFlatten(next) => next.path = <<Dollar>> \o L
           /\ IsRemerge(next) =>
                /\ IsPrefixOf(Given("referencePathPrefix", <<>>), next.field)
                /\ IsPrefixOf(next.field \o <<Dot>>, L)
                /\ next.input = <<Dollar>> \o next.field
                /\ next.indexOfArrayOf =
                     <<"$$this.">> \o ReplaceFirst(L, next.field \o <<Dot>>)
                /\ next.arrayElemAt = <<Dollar>> \o result.pipeline[i].as
                /\ i + 1 < Len(result.pipeline)
                /\ IsRemoval(result.pipeline[i + 2])
                /\ Head(result.pipeline[i + 2].field) = Tmp
                /\ IsPathOrAncestor(Tail(result.pipeline[i + 2].field), L)

\* C22: every field path of an emitted stage (the localField and the
\* output field of a join, the path of a flatten, the array a remerge
\* rewrites and the reference subfield it fills, the removed temporary
\* field) is relative to the outermost document, carrying the
\* referencePathPrefix in force at its step; so for an array of documents
\* behind a resolved plain reference (A.arr.ref).
C22_StagePathsCarryThePrefix ==
  (Returned /\ ~path.isArray
     /\ Given("parentArrayReference", <<>>) = <<>>)
    => \A i \in JoinIndexes : StepIsRelativeToOutermost(i)

\* the joins that write to a temporary field: the array-of-documents steps
TemporaryJoins ==
  {i \in JoinIndexes : Head(result.pipeline[i].as) = Tmp}

\* C23: in every array-of-documents step the removal stage targets the
\* temporary field the join of that step wrote to: the removed path is the
\* join's output path or an ancestor of it, so no temporary field of a join
\* is left behind; for every referencePathPrefix, a non-empty one too.
C23_RemovalTargetsTheJoinsTemporaryField ==
  (Returned /\ ~path.isArray
     /\ Given("parentArrayReference", <<>>) = <<>>)
    => \A i \in TemporaryJoins :
         /\ i + 2 <= Len(result.pipeline)
         /\ IsRemoval(result.pipeline[i + 2])
         /\ IsPathOrAncestor(result.pipeline[i + 2].field,
                             result.pipeline[i].as)

\* C24: getNearestReferenceData and getPipeline terminate for every schema
\* registry, cyclic ones too, and every path: the segment walk uses up a
\* remaining segment at each iteration and each recursive call is made on
\* a strictly shorter path, so no call runs on without end and none
\* exhausts the call stack.
C24_EveryCallTerminates ==
  pc \in {"returned", "done"}
    => /\ nearest # Hangs
       /\ result # Hangs
       /\ result # Throws("RangeError")

\* a is b cut before one of its dots: a proper dotted prefix of b
IsProperDottedPrefix(a, b) == IsPrefixOf(a \o <<Dot>>, b)

\* C25: in a stage list returned by getPipeline, for a list of paths and
\* any excludePaths given, a join whose localField is a proper dotted
\* prefix of another join's localField stands earlier in the list: a
\* reference is joined before anything reached through it.
C25_ReferenceJoinedBeforeWhatItLeadsTo ==
  Returned
    => \A i, j \in JoinIndexes :
         IsProperDottedPrefix(result.pipeline[i].localField,
                              result.pipeline[j].localField)
           => i < j

\* the longest path asked for first, then the reference it starts with:
\* the joins for ref, ref.ref and ref.ref.ref come out in this order, once
C25_Witness ==
  /\ Returned /\ path.isArray /\ model = "LevelOne"
  /\ path.paths = <<P3("ref", "ref", "ref"), P1("ref")>>
  /\ options = <<>>
  /\ JoinLocalFields(result.pipeline)
       = <<P1("ref"), P2("ref", "ref"), P3("ref", "ref", "ref")>>

====
